---- MODULE Spec2Model ----
(***************************************************************************)
(* Model of src/trading.py: the three signal generators, the realized-     *)
(* profit replay, the per-stock / global best-strategy selection of        *)
(* evaluate_strategies and the order decision loop of fetch_and_trade.     *)
(*                                                                         *)
(* Prices are positive integers.  A rolling statistic is kept exactly: a   *)
(* window is represented by its size, its sum and its sum of squares, so   *)
(* that every comparison the code makes between a price, a mean and a      *)
(* band (mean +/- k*std, sample standard deviation) is decided in integer  *)
(* arithmetic.  pandas' NaN (window not yet full) is the record with       *)
(* nan = TRUE; every comparison with it is FALSE, as in numpy.             *)
(* Sequences are 1-indexed here; index i of the model is row i-1 of the    *)
(* code.                                                                   *)
(***************************************************************************)
EXTENDS Integers, Sequences, FiniteSets, TLC

VARIABLES
    pc,               \* position of the program / of the function under application
    data_in,          \* SpecSignals: the Close column handed to a signal generator
    applied,          \* SpecSignals / SpecProfit: the function that has been applied
    signals_out,      \* SpecSignals: the 'signal' column it returned
    signals_in,       \* SpecProfit: calculate_profit's signals argument
    prices_in,        \* SpecProfit: calculate_profit's prices argument
    profit_out,       \* SpecProfit: calculate_profit's return value
    e_idx,            \* evaluate_strategies: number of stocks processed
    results,          \* evaluate_strategies: the results dict, in insertion order
    most_profitable,  \* evaluate_strategies: the global best accumulator
    results_file,     \* the content of results.json
    best_strategies,  \* fetch_and_trade: json.load(f)['results']
    t_idx,            \* fetch_and_trade: number of loop iterations completed
    stock,            \* fetch_and_trade: loop variable
    best_strategy,    \* fetch_and_trade: data['best_strategy']
    latest_data,      \* fetch_and_trade: the freshly downloaded Close column
    signals,          \* fetch_and_trade: the local variable signals (or unbound)
    calls,            \* the calls made to yfinance / the Alpaca API, in order
    printed,          \* the lines printed by fetch_and_trade
    error             \* the exception that ended the run, or "none"

vars == <<pc, data_in, applied, signals_out, signals_in, prices_in, profit_out,
          e_idx, results, most_profitable, results_file, best_strategies, t_idx,
          stock, best_strategy, latest_data, signals, calls, printed, error>>

----------------------------------------------------------------------------
(* Bounds of the model *)

\* longest live sample
MaxLen == 21
\* prices are 1..MaxPrice
MaxPrice == 4
\* a historical price series is a flat run followed by at most MaxTail free prices
MaxTail == 4
\* a live sample is a flat run followed by at most MaxLiveTail free prices
MaxLiveTail == 1
\* the prices of a live sample are 1..MaxLivePrice
MaxLivePrice == 2
\* longest (signal, price) sequence handed to calculate_profit on its own
MaxSeq == 4

(* Program constants *)

short_window == 5
long_window == 20
mr_window == 20
std_dev_factor == 1
bb_window == 20
num_std_dev == 2
order_qty == 10

Prices == 1..MaxPrice

Min(a, b) == IF a < b THEN a ELSE b

Last(s) == s[Len(s)]

\* b repeated n times
Flat(b, n) == [i \in 1..n |-> b]

\* the sequences over 1..p of at most n entries
TailsUpTo(n, p) == UNION { [1..t -> 1..p] : t \in 0..n }

\* the live samples: at most MaxLen rows, a flat run then at most MaxLiveTail free prices
LiveSamples ==
    UNION { { Flat(b, n - Len(tail)) \o tail :
                b \in 1..MaxLivePrice,
                tail \in TailsUpTo(Min(n, MaxLiveTail), MaxLivePrice) }
            : n \in 0..MaxLen }

\* histories that fill the long window: a flat run one row short of it, then at most
\* MaxTail free prices
FullSeries ==
    { Flat(b, long_window - 1) \o tail :
        b \in Prices, tail \in TailsUpTo(MaxTail, MaxPrice) }

\* the price series handed to the signal generators and read from the csv files
PriceSeries == LiveSamples \cup FullSeries

----------------------------------------------------------------------------
(* Rolling statistics: prices.rolling(window=w) *)

NaN == [nan |-> TRUE, n |-> 1, sum |-> 0, sumsq |-> 0]

RECURSIVE WindowSum(_, _, _)
WindowSum(prices, lo, hi) ==
    IF lo > hi THEN 0 ELSE prices[hi] + WindowSum(prices, lo, hi - 1)

RECURSIVE WindowSumSq(_, _, _)
WindowSumSq(prices, lo, hi) ==
    IF lo > hi THEN 0 ELSE prices[hi] * prices[hi] + WindowSumSq(prices, lo, hi - 1)

\* the window ending at row i: NaN until w rows are available (min_periods = window)
Rolling(prices, w) ==
    [i \in 1..Len(prices) |->
        IF i < w THEN NaN
        ELSE [nan |-> FALSE, n |-> w,
              sum |-> WindowSum(prices, i - w + 1, i),
              sumsq |-> WindowSumSq(prices, i - w + 1, i)]]

\* calculate_moving_averages: the rolling mean, sum/n, kept as the window itself
calculate_moving_averages(prices, w) == Rolling(prices, w)

\* mean(a) > mean(b); FALSE when either is NaN
MeanGt(a, b) == ~a.nan /\ ~b.nan /\ a.sum * b.n > b.sum * a.n

\* n*(n-1)*variance and n*(mean - price) of a window
VarNum(st) == st.n * st.sumsq - st.sum * st.sum
Dev(st, price) == st.sum - st.n * price

\* price < mean - k*std  (std with ddof = 1); FALSE when the window is NaN.
\* mean - price > k*std >= 0  iff  Dev > 0 and (n-1)*Dev^2 > k^2*n*VarNum
BelowBand(price, st, k) ==
    /\ ~st.nan
    /\ Dev(st, price) > 0
    /\ (st.n - 1) * Dev(st, price) * Dev(st, price) > k * k * st.n * VarNum(st)

\* price > mean + k*std; FALSE when the window is NaN
AboveBand(price, st, k) ==
    /\ ~st.nan
    /\ Dev(st, price) < 0
    /\ (st.n - 1) * Dev(st, price) * Dev(st, price) > k * k * st.n * VarNum(st)

----------------------------------------------------------------------------
(* Signal generators; each returns the 'signal' column *)

\* np.where(short_mavg > long_mavg, 1.0, -1.0)
CrossSignal(short, long) == IF MeanGt(short, long) THEN 1 ELSE -1

\* mutant of SmaAssigned: the assignment starts at the row that fills the short window
SmaAssignedFromFill(i) == i >= short_window

\* the rows the assignment signals.loc[signals.index[short_window:], ...] covers
SmaAssigned(i) == i > short_window

simple_moving_average_strategy(data) ==
    LET short_mavg == calculate_moving_averages(data, short_window)
        long_mavg  == calculate_moving_averages(data, long_window)
    IN  [i \in 1..Len(data) |->
            IF SmaAssigned(i) THEN CrossSignal(short_mavg[i], long_mavg[i]) ELSE 0]

\* mutant of SellPass: the second pass starts again from 0 instead of the first pass
SellPassReset(sell, previous) == IF sell THEN -1 ELSE 0

\* second pass: np.where(sell, -1.0, signals['signal'])
SellPass(sell, previous) == IF sell THEN -1 ELSE previous

\* first pass np.where(buy, 1.0, 0.0), then the sell pass over it
BandSignal(price, st, k) ==
    SellPass(AboveBand(price, st, k), IF BelowBand(price, st, k) THEN 1 ELSE 0)

mean_reversion_strategy(data) ==
    LET st == Rolling(data, mr_window)
    IN  [i \in 1..Len(data) |-> BandSignal(data[i], st[i], std_dev_factor)]

bollinger_bands_strategy(data) ==
    LET st == Rolling(data, bb_window)
    IN  [i \in 1..Len(data) |-> BandSignal(data[i], st[i], num_std_dev)]

StrategyNames == <<"sma", "mr", "bb">>

Known == {"sma", "mr", "bb"}

StrategySignals(name, data) ==
    CASE name = "sma" -> simple_moving_average_strategy(data)
      [] name = "mr"  -> mean_reversion_strategy(data)
      [] name = "bb"  -> bollinger_bands_strategy(data)

----------------------------------------------------------------------------
(* calculate_profit *)

\* mutant of ProfitStep: a +1 while open re-enters at the new price
ProfitStepReenter(st, signal, price) ==
    IF signal = 1
    THEN [profit |-> st.profit, position_open |-> TRUE, entry_price |-> price]
    ELSE IF signal = -1 /\ st.position_open
    THEN [profit |-> st.profit + (price - st.entry_price),
          position_open |-> FALSE, entry_price |-> st.entry_price]
    ELSE st

\* one iteration of the replay loop over (signal, price)
ProfitStep(st, signal, price) ==
    IF signal = 1 /\ ~st.position_open
    THEN [profit |-> st.profit, position_open |-> TRUE, entry_price |-> price]
    ELSE IF signal = -1 /\ st.position_open
    THEN [profit |-> st.profit + (price - st.entry_price),
          position_open |-> FALSE, entry_price |-> st.entry_price]
    ELSE st

RECURSIVE ProfitLoop(_, _, _)
ProfitLoop(sigs, prices, i) ==
    IF i = 0
    THEN [profit |-> 0, position_open |-> FALSE, entry_price |-> 0]
    ELSE ProfitStep(ProfitLoop(sigs, prices, i - 1), sigs[i], prices[i])

\* zip stops at the shorter of the two
calculate_profit(sigs, prices) ==
    ProfitLoop(sigs, prices, Min(Len(sigs), Len(prices))).profit

----------------------------------------------------------------------------
(* Values of the variables a specification does not use *)

FnIdle ==
    /\ data_in = <<>> /\ signals_out = <<>>
    /\ signals_in = <<>> /\ prices_in = <<>> /\ profit_out = 0

NoBest == [Stock |-> "None", Strategy |-> "None", neg_inf |-> TRUE, Profit |-> 0]

EvalIdle ==
    /\ e_idx = 0 /\ results = <<>> /\ most_profitable = NoBest

Unbound == [bound |-> FALSE, signal |-> <<>>]

TradeIdle ==
    /\ best_strategies = <<>> /\ t_idx = 0 /\ stock = "None"
    /\ best_strategy = "None" /\ latest_data = <<>> /\ signals = Unbound
    /\ calls = <<>> /\ printed = <<>> /\ error = "none"

fnVars == <<data_in, applied, signals_out, signals_in, prices_in, profit_out>>
evalVars == <<e_idx, results, most_profitable>>
tradeVars == <<best_strategies, t_idx, stock, best_strategy, latest_data, signals,
               calls, printed, error>>

----------------------------------------------------------------------------
(* SpecSignals: a signal generator applied to a price series *)

InitSignals ==
    /\ pc = "signals" /\ applied = "none"
    /\ data_in \in PriceSeries
    /\ signals_out = <<>> /\ signals_in = <<>> /\ prices_in = <<>> /\ profit_out = 0
    /\ EvalIdle /\ results_file = <<>> /\ TradeIdle

ApplySma ==
    /\ pc = "signals" /\ applied = "none"
    /\ applied' = "sma"
    /\ signals_out' = simple_moving_average_strategy(data_in)
    /\ UNCHANGED <<pc, data_in, signals_in, prices_in, profit_out, evalVars,
                   results_file, tradeVars>>

ApplyMr ==
    /\ pc = "signals" /\ applied = "none"
    /\ applied' = "mr"
    /\ signals_out' = mean_reversion_strategy(data_in)
    /\ UNCHANGED <<pc, data_in, signals_in, prices_in, profit_out, evalVars,
                   results_file, tradeVars>>

ApplyBb ==
    /\ pc = "signals" /\ applied = "none"
    /\ applied' = "bb"
    /\ signals_out' = bollinger_bands_strategy(data_in)
    /\ UNCHANGED <<pc, data_in, signals_in, prices_in, profit_out, evalVars,
                   results_file, tradeVars>>

NextSignals == ApplySma \/ ApplyMr \/ ApplyBb

SpecSignals == InitSignals /\ [][NextSignals]_vars

----------------------------------------------------------------------------
(* SpecProfit: calculate_profit applied to an aligned (signal, price) sequence *)

SignalValues == {-1, 0, 1}

InitProfit ==
    /\ pc = "profit" /\ applied = "none"
    /\ \E n \in 0..MaxSeq :
          /\ signals_in \in [1..n -> SignalValues]
          /\ prices_in \in [1..n -> Prices]
    /\ profit_out = 0 /\ data_in = <<>> /\ signals_out = <<>>
    /\ EvalIdle /\ results_file = <<>> /\ TradeIdle

ApplyProfit ==
    /\ pc = "profit" /\ applied = "none"
    /\ applied' = "calculate_profit"
    /\ profit_out' = calculate_profit(signals_in, prices_in)
    /\ UNCHANGED <<pc, data_in, signals_out, signals_in, prices_in, evalVars,
                   results_file, tradeVars>>

NextProfit == ApplyProfit

SpecProfit == InitProfit /\ [][NextProfit]_vars

----------------------------------------------------------------------------
(* evaluate_strategies *)

\* the stock list: the head of the default list; the symbols are distinct
stocks == <<"AAPL", "MSFT">>

\* (series > 0).sum() and (series < 0).sum()
CountPos(sigs) == Cardinality({i \in 1..Len(sigs) : sigs[i] > 0})
CountNeg(sigs) == Cardinality({i \in 1..Len(sigs) : sigs[i] < 0})

StatsOf(sigs, data) ==
    [buy_signals |-> CountPos(sigs), sell_signals |-> CountNeg(sigs),
     Profit |-> calculate_profit(sigs, data)]

\* the strategies dict built for one stock from its csv
StrategyStats(data) ==
    [name \in Known |-> StatsOf(StrategySignals(name, data), data)]

\* the strategies dicts the price series of the model give
EvaluatedSeries == {StrategyStats(data) : data \in PriceSeries}

\* mutant of KeyGreater: an equal key replaces the running maximum
KeyGreaterOrEqual(candidate, incumbent) == candidate >= incumbent

\* max(): a later item replaces the running maximum only if its key is greater
KeyGreater(candidate, incumbent) == candidate > incumbent

RECURSIVE PyMax(_, _, _)
PyMax(strategies, i, best) ==
    IF i > Len(StrategyNames) THEN best
    ELSE PyMax(strategies, i + 1,
               IF KeyGreater(strategies[StrategyNames[i]].Profit, strategies[best].Profit)
               THEN StrategyNames[i] ELSE best)

\* max(strategies.items(), key=lambda k: k[1]['Profit'])[0]
BestStrategy(strategies) == PyMax(strategies, 2, StrategyNames[1])

\* mutant of BeatsBest: an equal profit replaces the incumbent
BeatsOrTiesBest(profit, mp) == mp.neg_inf \/ profit >= mp.Profit

\* stats['Profit'] > most_profitable['Profit'], the latter starting at -inf
BeatsBest(profit, mp) == mp.neg_inf \/ profit > mp.Profit

RECURSIVE FoldBest(_, _, _, _)
FoldBest(mp, symbol, strategies, i) ==
    IF i > Len(StrategyNames) THEN mp
    ELSE LET name == StrategyNames[i]
         IN  FoldBest(IF BeatsBest(strategies[name].Profit, mp)
                      THEN [Stock |-> symbol, Strategy |-> name, neg_inf |-> FALSE,
                            Profit |-> strategies[name].Profit]
                      ELSE mp,
                      symbol, strategies, i + 1)

InitEval ==
    /\ pc = "evaluate" /\ applied = "none" /\ FnIdle
    /\ EvalIdle /\ results_file = <<>> /\ TradeIdle

\* the loop over stocks is done: json.dump, then return
SaveIfDone(n, res, mp) ==
    IF n = Len(stocks)
    THEN /\ results_file' = [results |-> res, most_profitable |-> mp]
         /\ pc' = "evaluated"
    ELSE UNCHANGED <<results_file, pc>>

\* one iteration of the loop over stocks, the csv read being the input; the last
\* iteration runs on into the save of the results
EvalStock ==
    /\ pc = "evaluate" /\ e_idx < Len(stocks)
    /\ \E strategies \in EvaluatedSeries :
          LET symbol == stocks[e_idx + 1]
          IN  /\ results' = Append(results,
                                   [stock |-> symbol, strategies |-> strategies,
                                    best_strategy |-> BestStrategy(strategies)])
              /\ most_profitable' = FoldBest(most_profitable, symbol, strategies, 1)
    /\ e_idx' = e_idx + 1
    /\ SaveIfDone(e_idx', results', most_profitable')
    /\ UNCHANGED <<fnVars, tradeVars>>

NextEval == EvalStock

SpecEval == InitEval /\ [][NextEval]_vars

----------------------------------------------------------------------------
(* fetch_and_trade *)

\* a best_strategy name that none of the three branches matches
UnknownStrategy == "rsi"

\* the results a results.json can hold for the stock list; of each entry
\* fetch_and_trade reads the key and 'best_strategy' only
FileResults ==
    { [k \in 1..Len(stocks) |-> [stock |-> stocks[k], best_strategy |-> names[k]]] :
        names \in [1..Len(stocks) -> Known \cup {UnknownStrategy}] }

InitTrade ==
    /\ pc = "trade" /\ applied = "none" /\ FnIdle
    /\ EvalIdle /\ TradeIdle
    /\ \E res \in FileResults :
          results_file = [results |-> res, most_profitable |-> NoBest]

\* with open(results_file) ...: json.load(f)['results']
TradeLoad ==
    /\ pc = "trade"
    /\ best_strategies' = results_file.results
    /\ pc' = "loop"
    /\ UNCHANGED <<fnVars, evalVars, results_file, t_idx, stock, best_strategy,
                   latest_data, signals, calls, printed, error>>

Download(symbol, ok) == [fn |-> "download", symbol |-> symbol, ok |-> ok]

SubmitOrder(symbol, side, ok) ==
    [fn |-> "submit_order", symbol |-> symbol, qty |-> order_qty, side |-> side,
     type |-> "market", time_in_force |-> "gtc", ok |-> ok]

\* mutant of Propagate: the exception is caught and the loop goes on
Swallow(exc) == error' = exc /\ pc' = "loop"

\* an exception nothing catches: it leaves the loop and the function
Propagate(exc) == error' = exc /\ pc' = "raised"

\* the head of an iteration: the loop variables are bound and yf.download returns
TradeFetch ==
    /\ pc = "loop" /\ t_idx < Len(best_strategies)
    /\ stock' = best_strategies[t_idx + 1].stock
    /\ best_strategy' = best_strategies[t_idx + 1].best_strategy
    /\ \E sample \in LiveSamples : latest_data' = sample
    /\ calls' = Append(calls, Download(stock', TRUE))
    /\ pc' = "decide"
    /\ UNCHANGED <<fnVars, evalVars, results_file, best_strategies, t_idx, signals,
                   printed, error>>

\* yf.download raises
TradeFetchFail ==
    /\ pc = "loop" /\ t_idx < Len(best_strategies)
    /\ stock' = best_strategies[t_idx + 1].stock
    /\ best_strategy' = best_strategies[t_idx + 1].best_strategy
    /\ calls' = Append(calls, Download(stock', FALSE))
    /\ Propagate("download")
    /\ UNCHANGED <<fnVars, evalVars, results_file, best_strategies, t_idx,
                   latest_data, signals, printed>>

\* the if/elif chain: signals is assigned only under one of the three names
Dispatch(name, data, previous) ==
    IF name \in Known
    THEN [bound |-> TRUE, signal |-> StrategySignals(name, data)]
    ELSE previous

\* mutant of LatestSignal: the first entry is read
FirstSignal(sig) == sig[1]

\* signals['signal'].iloc[-1]
LatestSignal(sig) == Last(sig)

\* the branch taken on latest_signal
OrderSide(latest_signal) ==
    IF latest_signal > 0 THEN "buy" ELSE IF latest_signal < 0 THEN "sell" ELSE "hold"

\* best_strategy.upper()
Upper(name) ==
    CASE name = "sma" -> "SMA"
      [] name = "mr"  -> "MR"
      [] name = "bb"  -> "BB"
      [] OTHER        -> "RSI"

Line(side, symbol, name) == [side |-> side, symbol |-> symbol, strategy |-> Upper(name)]

IterationDone ==
    /\ t_idx' = t_idx + 1
    /\ pc' = IF t_idx' = Len(best_strategies) THEN "done" ELSE "loop"

\* the rest of an iteration: dispatch, latest signal, order or hold, print
TradeDecide ==
    /\ pc = "decide"
    /\ signals' = Dispatch(best_strategy, latest_data, signals)
    /\ IF ~signals'.bound
       THEN /\ Propagate("UnboundLocalError")
            /\ UNCHANGED <<t_idx, calls, printed>>
       ELSE IF Len(signals'.signal) = 0
       THEN /\ Propagate("IndexError")
            /\ UNCHANGED <<t_idx, calls, printed>>
       ELSE LET side == OrderSide(LatestSignal(signals'.signal))
            IN  /\ calls' = IF side = "hold" THEN calls
                            ELSE Append(calls, SubmitOrder(stock, side, TRUE))
                /\ printed' = Append(printed, Line(side, stock, best_strategy))
                /\ IterationDone
                /\ UNCHANGED error
    /\ UNCHANGED <<fnVars, evalVars, results_file, best_strategies, stock,
                   best_strategy, latest_data>>

\* api.submit_order raises
TradeSubmitFail ==
    /\ pc = "decide"
    /\ signals' = Dispatch(best_strategy, latest_data, signals)
    /\ signals'.bound /\ Len(signals'.signal) > 0
    /\ OrderSide(LatestSignal(signals'.signal)) # "hold"
    /\ calls' = Append(calls, SubmitOrder(stock,
                                          OrderSide(LatestSignal(signals'.signal)), FALSE))
    /\ Propagate("submit_order")
    /\ UNCHANGED <<fnVars, evalVars, results_file, best_strategies, t_idx, stock,
                   best_strategy, latest_data, printed>>

NextTrade == TradeLoad \/ TradeFetch \/ TradeFetchFail \/ TradeDecide \/ TradeSubmitFail

SpecTrade == InitTrade /\ [][NextTrade]_vars

----------------------------------------------------------------------------
(* Claims about calculate_profit (SpecProfit) *)

\* the position is open after steps 1..j: the last non-zero signal so far is a +1
OpenAfter(sigs, j) ==
    \E k \in 1..j : sigs[k] = 1 /\ \A m \in (k + 1)..j : sigs[m] # -1

\* step b opens a position; step s closes one
Opens(sigs, b) == sigs[b] = 1 /\ ~OpenAfter(sigs, b - 1)
Closes(sigs, s) == sigs[s] = -1 /\ OpenAfter(sigs, s - 1)

\* the step that opened the position step s closes
EntryOf(sigs, s) ==
    CHOOSE b \in 1..(s - 1) :
        Opens(sigs, b) /\ \A c \in (b + 1)..(s - 1) : ~Opens(sigs, c)

RECURSIVE RoundTripSum(_, _, _)
RoundTripSum(sigs, prices, n) ==
    IF n = 0 THEN 0
    ELSE RoundTripSum(sigs, prices, n - 1)
         + (IF Closes(sigs, n) THEN prices[n] - prices[EntryOf(sigs, n)] ELSE 0)

\* C1: calculate_profit returns the sum, over the completed round trips (opened by
\* a +1 met while flat, closed by the next -1), of closing price minus entry price;
\* a position still open at the end adds nothing, and without a +1 the profit is 0.
C1_ProfitIsRoundTripSum ==
    applied = "calculate_profit" =>
        /\ profit_out = RoundTripSum(signals_in, prices_in, Len(signals_in))
        /\ (\A i \in 1..Len(signals_in) : signals_in[i] # 1) => profit_out = 0

\* a +1 while open is ignored, the -1 closes at a loss, the last +1 stays open
C1_Witness ==
    /\ applied = "calculate_profit"
    /\ signals_in = <<1, 1, -1, 1>>
    /\ prices_in = <<2, 1, 3, 1>>
    /\ profit_out = 1

----------------------------------------------------------------------------
(* Claims about the signal generators (SpecSignals) *)

\* the sum of the w closes ending at row i
SumAt(data, i, w) == WindowSum(data, i - w + 1, i)

\* mean of the short window > mean of the long window, both defined at row i
ShortAboveLong(data, i) ==
    /\ i >= short_window /\ i >= long_window
    /\ SumAt(data, i, short_window) * long_window
         > SumAt(data, i, long_window) * short_window

\* C8 as stated: signal 0 before the short window fills (code rows i < S-1, here
\* i < S), and from the row where the short mean is defined on (here i >= S) the
\* signal is +1 if short mean > long mean and -1 otherwise.
C8_Original ==
    applied = "sma" =>
        \A i \in 1..Len(data_in) :
            /\ i < short_window => signals_out[i] = 0
            /\ i >= short_window =>
                  signals_out[i] = IF ShortAboveLong(data_in, i) THEN 1 ELSE -1

\* C8 amended: the first S rows (code rows i < S, here i <= S) carry 0, the row
\* where the short window first fills included; from code row S on the signal is
\* +1 if short mean > long mean and -1 otherwise (tie or undefined long mean).
C8_SmaSignal ==
    applied = "sma" =>
        \A i \in 1..Len(data_in) :
            /\ i <= short_window => signals_out[i] = 0
            /\ i > short_window =>
                  signals_out[i] = IF ShortAboveLong(data_in, i) THEN 1 ELSE -1

\* a series long enough for a crossover: neutral start, -1 while the long mean is
\* undefined, +1 on the rise, -1 on the tie that follows
C8_Witness ==
    /\ applied = "sma"
    /\ Len(data_in) = long_window + 1
    /\ signals_out[short_window] = 0
    /\ signals_out[short_window + 1] = -1
    /\ signals_out[long_window] = 1
    /\ signals_out[long_window + 1] = -1
    /\ SumAt(data_in, long_window + 1, short_window) * long_window
         = SumAt(data_in, long_window + 1, long_window) * short_window

\* the windows a generator uses
WindowsOf(name) ==
    CASE name = "sma" -> {short_window, long_window}
      [] name = "mr"  -> {mr_window}
      [] name = "bb"  -> {bb_window}

\* C4: at every row where a rolling statistic the generator uses is undefined
\* (fewer closes than one of its windows) the signal is 0; every signal is in
\* {+1, -1, 0}.
C4_NeutralWhileUndefined ==
    applied \in Known =>
        \A i \in 1..Len(data_in) :
            /\ signals_out[i] \in SignalValues
            /\ (\E w \in WindowsOf(applied) : i < w) => signals_out[i] = 0

\* sum over the window's closes x of (w*x - sum)^2 = w^2 * (w-1) * variance
RECURSIVE SqDevSum(_, _, _, _, _)
SqDevSum(data, lo, hi, w, sum) ==
    IF lo > hi THEN 0
    ELSE (w * data[hi] - sum) * (w * data[hi] - sum)
         + SqDevSum(data, lo, hi - 1, w, sum)

\* price < mean - k*std at row i, from the definition of the sample deviation
BuyCondition(data, i, w, k) ==
    /\ i >= w
    /\ LET sum == SumAt(data, i, w)
       IN  /\ sum > w * data[i]
           /\ (w - 1) * (sum - w * data[i]) * (sum - w * data[i])
                > k * k * SqDevSum(data, i - w + 1, i, w, sum)

\* price > mean + k*std at row i
SellCondition(data, i, w, k) ==
    /\ i >= w
    /\ LET sum == SumAt(data, i, w)
       IN  /\ sum < w * data[i]
           /\ (w - 1) * (sum - w * data[i]) * (sum - w * data[i])
                > k * k * SqDevSum(data, i - w + 1, i, w, sum)

BandOf(name) == IF name = "mr" THEN std_dev_factor ELSE num_std_dev

\* C9: for mean reversion (k = 1) and Bollinger (k = 2), window 20, the signal is
\* +1 exactly where price < mean - k*std, -1 exactly where price > mean + k*std and
\* 0 elsewhere (rows with undefined statistics included); the two conditions never
\* hold at the same row.
C9_BandSignal ==
    applied \in {"mr", "bb"} =>
        \A i \in 1..Len(data_in) :
            LET w == IF applied = "mr" THEN mr_window ELSE bb_window
                buy == BuyCondition(data_in, i, w, BandOf(applied))
                sell == SellCondition(data_in, i, w, BandOf(applied))
            IN  /\ ~(buy /\ sell)
                /\ signals_out[i] = 1 <=> buy
                /\ signals_out[i] = -1 <=> sell
                /\ signals_out[i] = 0 <=> (~buy /\ ~sell)
                /\ i < w => signals_out[i] = 0

\* a dip below the lower band followed by a spike above the upper band
C9_Witness ==
    /\ applied = "bb"
    /\ Len(data_in) = bb_window + 1
    /\ signals_out[bb_window - 1] = 0
    /\ signals_out[bb_window] = 1
    /\ signals_out[bb_window + 1] = -1

----------------------------------------------------------------------------
(* Claims about evaluate_strategies (SpecEval) *)

\* position of a strategy in the fixed order sma, mr, bb
OrderOf(name) == CHOOSE i \in 1..Len(StrategyNames) : StrategyNames[i] = name

\* C6: the recorded best_strategy of every evaluated stock has a profit >= that of
\* each strategy, and among the strategies sharing the maximal profit it is the
\* earliest in the order sma, mr, bb.
C6_BestIsFirstMaximum ==
    \A k \in 1..Len(results) :
        LET r == results[k]
            top == r.strategies[r.best_strategy].Profit
        IN  /\ r.best_strategy \in Known
            /\ \A name \in Known :
                  /\ top >= r.strategies[name].Profit
                  /\ r.strategies[name].Profit = top =>
                        OrderOf(r.best_strategy) <= OrderOf(name)

\* both cases on record: bb alone maximal, and sma first among three equal profits
C6_Witness ==
    /\ Len(results) = 2
    /\ results[1].best_strategy = "bb"
    /\ results[1].strategies["bb"].Profit > results[1].strategies["mr"].Profit
    /\ results[1].strategies["mr"].Profit > results[1].strategies["sma"].Profit
    /\ results[2].best_strategy = "sma"
    /\ results[2].strategies["sma"].Profit = results[2].strategies["mr"].Profit
    /\ results[2].strategies["sma"].Profit = results[2].strategies["bb"].Profit

\* the (stock, strategy) pairs processed so far, as (k, j): stock k, strategy j
Processed == (1..Len(results)) \X (1..Len(StrategyNames))

ProfitAt(t) == results[t[1]].strategies[StrategyNames[t[2]]].Profit

\* processing order: stock order, then sma, mr, bb
Before(t, u) == t[1] < u[1] \/ (t[1] = u[1] /\ t[2] < u[2])

\* C7: after any prefix of the stock list, most_profitable is the first triple in
\* processing order among those of maximal profit over the prefix (so an equal
\* profit never replaces it), and it is (None, None, -inf) exactly when no stock
\* has been processed.
C7_GlobalBestIsFirstMaximum ==
    /\ e_idx = Len(results)
    /\ most_profitable = NoBest <=> e_idx = 0
    /\ e_idx > 0 =>
          \E t \in Processed :
              /\ \A u \in Processed : ProfitAt(u) <= ProfitAt(t)
              /\ \A u \in Processed : ProfitAt(u) = ProfitAt(t) => ~Before(u, t)
              /\ most_profitable =
                    [Stock |-> results[t[1]].stock, Strategy |-> StrategyNames[t[2]],
                     neg_inf |-> FALSE, Profit |-> ProfitAt(t)]

\* the second stock reaches the first stock's maximum without exceeding it
C7_Witness ==
    /\ e_idx = 2
    /\ most_profitable.Stock = stocks[1]
    /\ most_profitable.Strategy = "mr"
    /\ most_profitable.Profit > 0
    /\ results[2].strategies["mr"].Profit = most_profitable.Profit
    /\ results[2].strategies["bb"].Profit = most_profitable.Profit

----------------------------------------------------------------------------
(* Claims about fetch_and_trade (SpecTrade) *)

\* the orders the broker accepted, the holds reported, for a symbol
OrdersFor(symbol) ==
    {i \in 1..Len(calls) :
        calls[i].fn = "submit_order" /\ calls[i].symbol = symbol /\ calls[i].ok}

SubmitsFor(symbol) ==
    {i \in 1..Len(calls) : calls[i].fn = "submit_order" /\ calls[i].symbol = symbol}

DownloadsFor(symbol) ==
    {i \in 1..Len(calls) : calls[i].fn = "download" /\ calls[i].symbol = symbol}

HoldsFor(symbol) ==
    {i \in 1..Len(printed) : printed[i].side = "hold" /\ printed[i].symbol = symbol}

LinesFor(symbol) == {i \in 1..Len(printed) : printed[i].symbol = symbol}

\* an iteration has just run to its end
AfterIteration == pc \in {"loop", "done"} /\ t_idx > 0

\* C2: a best_strategy outside {sma, mr, bb} fails loudly for its stock, first or
\* later in the results: its iteration never runs to its end, and no order is
\* submitted and no line printed on that stock's behalf.
C2_UnknownFailsLoudly ==
    \A k \in 1..Len(best_strategies) :
        best_strategies[k].best_strategy \notin Known =>
            /\ t_idx < k
            /\ SubmitsFor(best_strategies[k].stock) = {}
            /\ LinesFor(best_strategies[k].stock) = {}

Lookback(name) ==
    CASE name = "sma" -> long_window
      [] name = "mr"  -> mr_window
      [] name = "bb"  -> bb_window

\* C5: a non-empty sample with fewer rows than the lookback window of the selected
\* strategy gives signals that are all 0 and a hold: no order for that stock.
C5_ShortSampleHolds ==
    (/\ AfterIteration
     /\ best_strategy \in Known
     /\ Len(latest_data) > 0
     /\ Len(latest_data) < Lookback(best_strategy)) =>
        /\ \A i \in 1..Len(signals.signal) : signals.signal[i] = 0
        /\ SubmitsFor(stock) = {}
        /\ HoldsFor(stock) # {}

\* C10: a failed download or order submission ends the run at once: the failed
\* call is the last call made and the only one that failed (no retry), nothing
\* was called or printed for a later stock, the failing stock got no order and no
\* line, each earlier stock keeps its one download, and no further step follows.
C10_FailureEndsRun ==
    error \in {"download", "submit_order"} =>
        /\ pc = "raised"
        /\ ~ENABLED NextTrade
        /\ Len(calls) > 0
        /\ Last(calls).fn = error /\ ~Last(calls).ok
        /\ Last(calls).symbol = best_strategies[t_idx + 1].stock
        /\ \A i \in 1..(Len(calls) - 1) : calls[i].ok
        /\ \A k \in 1..Len(best_strategies) :
              LET symbol == best_strategies[k].stock
              IN  /\ k > t_idx + 1 =>
                        /\ DownloadsFor(symbol) = {} /\ SubmitsFor(symbol) = {}
                        /\ LinesFor(symbol) = {}
                  /\ k = t_idx + 1 =>
                        /\ OrdersFor(symbol) = {} /\ LinesFor(symbol) = {}
                        /\ Cardinality(DownloadsFor(symbol)) = 1
                        /\ Cardinality(SubmitsFor(symbol)) <= 1
                  /\ k <= t_idx =>
                        /\ Cardinality(DownloadsFor(symbol)) = 1
                        /\ Cardinality(LinesFor(symbol)) = 1

\* the order of the second stock fails after the first stock's order went through
C10_Witness ==
    /\ error = "submit_order"
    /\ t_idx = 1
    /\ OrdersFor(stocks[1]) # {}
    /\ Cardinality(SubmitsFor(stocks[2])) = 1

====
